---- MODULE Spec2Model ----
(***************************************************************************)
(* web_connectome (src/main.go): a named connectome is loaded once from a  *)
(* cell-name table and a dense connectivity matrix (ReadConnectionsCSV),   *)
(* and then queried by pairs of comma-separated name patterns              *)
(* (getSearchHTML, MatchingNames, ConnectionStrength, SortByStrength).     *)
(*                                                                         *)
(* Strings are sequences of one-character strings, so that prefixes,       *)
(* splitting, trimming and number parsing are computed, not assumed.       *)
(* A Go int is a two's-complement integer; the model keeps its wrap-around *)
(* at a width of IntBits bits instead of 64.                               *)
(***************************************************************************)
EXTENDS Integers, Sequences, FiniteSets, TLC

VARIABLES
    phase,        \* position of main(): "loading", "serving", "fatal", "panic"; "unit" in SpecAdd
    names,        \* cells: the CellList handed to ReadConnectionsCSV
    connectivity, \* the NamedConnectome (connects while loading, the global afterwards)
    bodyNum,      \* ReadConnectionsCSV's row counter
    items,        \* the record whose fields are being walked (<<>> between records)
    col,          \* the loop index i of the field loop, 0-based
    hist,         \* what csvReader.Read has returned so far, one summary per record
    request,      \* the last search request: <<preNames, postNames>>, or <<>>
    response,     \* what the last run of getSearchHTML produced
    prior         \* SpecAdd only: the connectome and arguments of the last AddConnection pair

vars == <<phase, names, connectivity, bodyNum, items, col, hist, request, response, prior>>

---------------------------------------------------------------------------
(* Bounds of the model.                                                    *)

\* width of the model's int in bits (Go's int has 64)
IntBits == 4
\* longest cell-name table
MaxNames == 2
\* most records csvReader.Read returns before io.EOF
MaxRecords == 3
\* most characters of the two raw pattern strings of a request, together
MaxRaw == 4

---------------------------------------------------------------------------
(* Integers of the width of int.                                           *)

RECURSIVE Pow2(_)
Pow2(n) == IF n = 0 THEN 1 ELSE 2 * Pow2(n - 1)

MaxInt == Pow2(IntBits - 1) - 1
MinInt == 0 - Pow2(IntBits - 1)

\* the value an int holds after an arithmetic result x (two's complement)
Wrap(x) == ((x - MinInt) % Pow2(IntBits)) + MinInt

---------------------------------------------------------------------------
(* Strings.                                                                *)

RECURSIVE SeqsUpTo(_, _)
SeqsUpTo(S, n) ==
    IF n = 0 THEN {<<>>}
    ELSE LET shorter == SeqsUpTo(S, n - 1)
         IN  shorter \cup {Append(s, c) : s \in shorter, c \in S}

Range(s) == {s[i] : i \in 1..Len(s)}

Digits == <<"0", "1", "2", "3", "4", "5", "6", "7", "8", "9">>

DigitValue(c) == (CHOOSE i \in 1..10 : Digits[i] = c) - 1

IsDigit(c) == \E i \in 1..10 : Digits[i] = c

\* decimal digits of a natural number
RECURSIVE NatDigits(_)
NatDigits(n) ==
    IF n < 10 THEN <<Digits[n + 1]>>
    ELSE Append(NatDigits(n \div 10), Digits[(n % 10) + 1])

\* the text of an integer, as a CSV field holds it
Itoa(n) == IF n < 0 THEN <<"-">> \o NatDigits(0 - n) ELSE NatDigits(n)

RECURSIVE DigitsValue(_)
DigitsValue(s) ==
    IF s = <<>> THEN 0
    ELSE 10 * DigitsValue(SubSeq(s, 1, Len(s) - 1)) + DigitValue(s[Len(s)])

\* strconv.Atoi: an optional sign, then one or more digits, within the range of int
Atoi(s) ==
    LET signed == Len(s) > 0 /\ s[1] \in {"-", "+"}
        body   == IF signed THEN Tail(s) ELSE s
        value  == IF signed /\ s[1] = "-" THEN 0 - DigitsValue(body) ELSE DigitsValue(body)
    IN  IF body = <<>> \/ \E i \in 1..Len(body) : ~IsDigit(body[i])
        THEN [ok |-> FALSE, value |-> 0]
        ELSE IF value < MinInt \/ value > MaxInt
             THEN [ok |-> FALSE, value |-> 0]
             ELSE [ok |-> TRUE, value |-> value]

\* strings.HasPrefix
HasPrefix(s, prefix) ==
    Len(prefix) <= Len(s) /\ SubSeq(s, 1, Len(prefix)) = prefix

\* strings.TrimSpace
RECURSIVE TrimLeft(_)
TrimLeft(s) == IF s # <<>> /\ s[1] = " " THEN TrimLeft(Tail(s)) ELSE s

RECURSIVE TrimRight(_)
TrimRight(s) ==
    IF s # <<>> /\ s[Len(s)] = " " THEN TrimRight(SubSeq(s, 1, Len(s) - 1)) ELSE s

TrimSpace(s) == TrimRight(TrimLeft(s))

\* strings.Split(s, ","): always at least one item, the items between the commas
RECURSIVE Split(_)
Split(s) ==
    IF \A i \in 1..Len(s) : s[i] # ","
    THEN <<s>>
    ELSE LET k == CHOOSE i \in 1..Len(s) :
                      s[i] = "," /\ \A j \in 1..(i - 1) : s[j] # ","
         IN  <<SubSeq(s, 1, k - 1)>> \o Split(SubSeq(s, k + 1, Len(s)))

---------------------------------------------------------------------------
(* NamedConnectome: map[string](map[string]int).                           *)

\* a map with no key: what make(NamedConnectome) gives, and what a nil map reads as
EmptyMap == [k \in {} |-> 0]

\* NamedConnectome.ConnectionStrength: a stored strength of 0 reads as not found
ConnectionStrength(nc, pre, post) ==
    IF pre \in DOMAIN nc /\ post \in DOMAIN nc[pre] /\ nc[pre][post] # 0
    THEN [strength |-> nc[pre][post], found |-> TRUE]
    ELSE [strength |-> 0, found |-> FALSE]

\* a bug AddConnection could have: the strength of a known pair is overwritten
AddConnectionOverwrite(nc, pre, post, strength) ==
    IF pre \in DOMAIN nc
    THEN [nc EXCEPT ![pre] = (post :> strength) @@ @]
    ELSE (pre :> (post :> strength)) @@ nc

\* NamedConnectome.AddConnection
AddConnection(nc, pre, post, strength) ==
    LET m == IF Cardinality(DOMAIN nc) = 0 THEN EmptyMap ELSE nc
    IN  IF pre \in DOMAIN m
        THEN IF post \in DOMAIN m[pre]
             THEN [m EXCEPT ![pre][post] = Wrap(@ + strength)]
             ELSE [m EXCEPT ![pre] = (post :> strength) @@ @]
        ELSE (pre :> (post :> strength)) @@ m

\* every (pre, post, strength) the connectome stores
Entries(nc) ==
    UNION {{<<pre, post, nc[pre][post]>> : post \in DOMAIN nc[pre]} : pre \in DOMAIN nc}

\* no AddConnection call made yet (SpecAdd)
NoPrior == [calls |-> 0, nc |-> EmptyMap, pre |-> <<>>, post |-> <<>>, a |-> 0, b |-> 0]

NoResponse == [status |-> "none", matched |-> <<>>, found |-> <<>>, connections |-> <<>>]

---------------------------------------------------------------------------
(* The inputs of the load.                                                 *)

\* the cell names a table is made of
CellNames == {<<"A">>, <<"A", "B">>}

\* the cell-name tables ReadCellsCSV can return
NameTables == SeqsUpTo(CellNames, MaxNames)

\* the texts a field of the connectivity CSV holds: blank, zero, positive (the
\* largest int), negative, not a number
Fields == {<<>>, Itoa(0), Itoa(MaxInt), Itoa(0 - 1), <<"x">>}

\* the records csvReader.Read returns without error: one field or more. What Read
\* returns (a record, an error, io.EOF) is an input of the load: the reader
\* belongs to encoding/csv, and every outcome it can have is allowed here.
Records == SeqsUpTo(Fields, MaxNames + 1) \ {<<>>}

\* a record that is not a row of N integers
Malformed(rec, n) == Len(rec) # n \/ \E i \in 1..Len(rec) : ~Atoi(rec[i]).ok

\* a record as hist remembers it: how Read ended, what the record looked like,
\* and the row counter when it was read
Seen(isErr, rec, n, at) ==
    [err |-> isErr,
     blank |-> ~isErr /\ rec[1] = <<>>,
     malformed |-> ~isErr /\ Malformed(rec, n),
     at |-> at]

---------------------------------------------------------------------------
(* ReadConnectionsCSV, one action per turn of its loops.                   *)

InRead == phase = "loading" /\ items = <<>>

\* Read has a record left to return or to fail on
CanRead == InRead /\ Len(hist) < MaxRecords

\* csvReader.Read returns io.EOF: the loop ends, main goes on to ListenAndServe
ReadEOF ==
    /\ InRead
    /\ phase' = "serving"
    /\ UNCHANGED <<names, connectivity, bodyNum, items, col, hist, request, response, prior>>

\* a bug the error branch could have: it skips the record as a blank one is
\* skipped, past bodyNum++
ReadErrorNotCounted ==
    /\ CanRead
    /\ hist' = Append(hist, Seen(TRUE, <<>>, Len(names), bodyNum))
    /\ UNCHANGED <<phase, names, connectivity, bodyNum, items, col, request, response, prior>>

\* csvReader.Read returns another error: a warning is logged, and bodyNum++ is reached
ReadError ==
    /\ CanRead
    /\ hist' = Append(hist, Seen(TRUE, <<>>, Len(names), bodyNum))
    /\ bodyNum' = bodyNum + 1
    /\ UNCHANGED <<phase, names, connectivity, items, col, request, response, prior>>

\* a bug the blank branch could have: no continue, so that bodyNum++ is reached
ReadBlankCounted ==
    /\ CanRead
    /\ \E rec \in Records :
          /\ rec[1] = <<>>
          /\ hist' = Append(hist, Seen(FALSE, rec, Len(names), bodyNum))
    /\ bodyNum' = bodyNum + 1
    /\ UNCHANGED <<phase, names, connectivity, items, col, request, response, prior>>

\* items[0] == "": continue, past bodyNum++
ReadBlank ==
    /\ CanRead
    /\ \E rec \in Records :
          /\ rec[1] = <<>>
          /\ hist' = Append(hist, Seen(FALSE, rec, Len(names), bodyNum))
    /\ UNCHANGED <<phase, names, connectivity, bodyNum, items, col, request, response, prior>>

\* a bug the shape check could have: the record is logged and passed over
ReadMismatchPassed ==
    /\ CanRead
    /\ \E rec \in Records :
          /\ rec[1] # <<>>
          /\ Len(rec) # Len(names)
          /\ hist' = Append(hist, Seen(FALSE, rec, Len(names), bodyNum))
    /\ bodyNum' = bodyNum + 1
    /\ UNCHANGED <<phase, names, connectivity, items, col, request, response, prior>>

\* len(items) != len(names): log.Fatalf
ReadMismatch ==
    /\ CanRead
    /\ \E rec \in Records :
          /\ rec[1] # <<>>
          /\ Len(rec) # Len(names)
          /\ hist' = Append(hist, Seen(FALSE, rec, Len(names), bodyNum))
    /\ phase' = "fatal"
    /\ UNCHANGED <<names, connectivity, bodyNum, items, col, request, response, prior>>

\* preName := names[bodyNum] with bodyNum past the table: index out of range
ReadPastTable ==
    /\ CanRead
    /\ bodyNum >= Len(names)
    /\ \E rec \in Records :
          /\ rec[1] # <<>>
          /\ Len(rec) = Len(names)
          /\ hist' = Append(hist, Seen(FALSE, rec, Len(names), bodyNum))
    /\ phase' = "panic"
    /\ UNCHANGED <<names, connectivity, bodyNum, items, col, request, response, prior>>

\* a record of len(names) fields: the field loop starts at i = 0
ReadRow ==
    /\ CanRead
    /\ bodyNum < Len(names)
    /\ \E rec \in Records :
          /\ rec[1] # <<>>
          /\ Len(rec) = Len(names)
          /\ hist' = Append(hist, Seen(FALSE, rec, Len(names), bodyNum))
          /\ items' = rec
    /\ col' = 0
    /\ UNCHANGED <<phase, names, connectivity, bodyNum, request, response, prior>>

\* the index of names that the row being walked reads its presynaptic name from
PreIndex == bodyNum

\* one turn of the field loop: Atoi, log.Fatalln on an error, AddConnection when
\* strength > 0; after the last field, bodyNum++
ParseField ==
    /\ phase = "loading"
    /\ items # <<>>
    /\ LET parsed == Atoi(items[col + 1])
       IN  IF ~parsed.ok
           THEN /\ phase' = "fatal"
                /\ UNCHANGED <<connectivity, bodyNum, items, col>>
           ELSE /\ phase' = phase
                /\ connectivity' =
                       IF parsed.value > 0
                       THEN AddConnection(connectivity, names[PreIndex + 1],
                                          names[col + 1], parsed.value)
                       ELSE connectivity
                /\ IF col + 1 < Len(items)
                   THEN col' = col + 1 /\ UNCHANGED <<bodyNum, items>>
                   ELSE col' = 0 /\ items' = <<>> /\ bodyNum' = bodyNum + 1
    /\ UNCHANGED <<names, hist, request, response, prior>>

---------------------------------------------------------------------------
(* The query: MatchingNames, SortByStrength, getSearchHTML.                *)

\* the orders in which a range over a map with key set S can visit its keys
RECURSIVE Perms(_)
Perms(S) ==
    IF S = {} THEN {<<>>}
    ELSE UNION {{<<x>> \o p : p \in Perms(S \ {x})} : x \in S}

\* a bug the prefix branch could have: the names are compared with the stripped
\* pattern for equality
MatchesOfPatternExact(nc, pattern) ==
    IF pattern[Len(pattern)] = "*"
    THEN Perms({name \in DOMAIN nc : name = SubSeq(pattern, 1, Len(pattern) - 1)})
    ELSE IF pattern \in DOMAIN nc THEN {<<pattern>>} ELSE {<<>>}

\* what one pattern appends to matches; pattern is not empty
MatchesOfPattern(nc, pattern) ==
    IF pattern[Len(pattern)] = "*"
    THEN Perms({name \in DOMAIN nc : HasPrefix(name, SubSeq(pattern, 1, Len(pattern) - 1))})
    ELSE IF pattern \in DOMAIN nc THEN {<<pattern>>} ELSE {<<>>}

\* NamedConnectome.MatchingNames: every outcome the call can have. The slice
\* expression pattern[len(pattern)-1:] panics on an empty pattern; the order of a
\* range over the map is not fixed.
RECURSIVE MatchingNames(_, _)
MatchingNames(nc, patterns) ==
    IF patterns = <<>> THEN {[panic |-> FALSE, matches |-> <<>>]}
    ELSE IF Head(patterns) = <<>> THEN {[panic |-> TRUE, matches |-> <<>>]}
    ELSE {[panic |-> r.panic, matches |-> IF r.panic THEN <<>> ELSE f \o r.matches] :
             f \in MatchesOfPattern(nc, Head(patterns)),
             r \in MatchingNames(nc, Tail(patterns))}

\* a bug Less could have: ascending order
LessAscending(a, b) == a.strength < b.strength

\* ConnectionList.Less
Less(a, b) == a.strength > b.strength

\* ConnectionList.Swap
Swap(list, i, j) == [list EXCEPT ![i] = list[j], ![j] = list[i]]

\* the inner loop of sort's insertionSort: for j := i; j > a && Less(j, j-1); j--
RECURSIVE SinkDown(_, _)
SinkDown(list, j) ==
    IF j > 1 /\ Less(list[j], list[j - 1])
    THEN SinkDown(Swap(list, j, j - 1), j - 1)
    ELSE list

RECURSIVE InsertionSort(_, _)
InsertionSort(list, i) ==
    IF i > Len(list) THEN list ELSE InsertionSort(SinkDown(list, i), i + 1)

\* ConnectionList.SortByStrength: sort.Sort, which sorts a list of at most 12
\* elements by insertion
SortByStrength(list) == InsertionSort(list, 2)

\* the patterns of a raw string: split on commas, each item trimmed
Patterns(raw) == LET parts == Split(raw) IN [i \in 1..Len(parts) |-> TrimSpace(parts[i])]

\* the inner loop of getSearchHTML for one preName and one outcome of
\* MatchingNames(post): the connections found, in order
RECURSIVE FoundFor(_, _, _)
FoundFor(nc, preName, postMatches) ==
    IF postMatches = <<>> THEN <<>>
    ELSE LET looked == ConnectionStrength(nc, preName, Head(postMatches))
             rest   == FoundFor(nc, preName, Tail(postMatches))
         IN  IF looked.found
             THEN <<[pre |-> preName, post |-> Head(postMatches),
                     strength |-> looked.strength]>> \o rest
             ELSE rest

\* the outer loop of getSearchHTML: posts[i] is the outcome of the call of
\* MatchingNames(post) made for the i-th preName
RECURSIVE Collect(_, _, _, _)
Collect(nc, preMatches, posts, i) ==
    IF i > Len(preMatches) THEN <<>>
    ELSE FoundFor(nc, preMatches[i], posts[i].matches) \o Collect(nc, preMatches, posts, i + 1)

\* getSearchHTML: every response it can give. matched is what MatchingNames(pre)
\* returned, found the connection list before SortByStrength, connections the list
\* the page shows. A panic leaves the request without a page.
getSearchHTML(nc, preNames, postNames) ==
    LET pre  == Patterns(preNames)
        post == Patterns(postNames)
    IN  UNION {
          IF pm.panic
          THEN {[status |-> "panic", matched |-> <<>>, found |-> <<>>, connections |-> <<>>]}
          ELSE {LET found == Collect(nc, pm.matches, posts, 1)
                IN  IF \E i \in 1..Len(posts) : posts[i].panic
                    THEN [status |-> "panic", matched |-> pm.matches,
                          found |-> <<>>, connections |-> <<>>]
                    ELSE IF Len(found) > 0
                    THEN [status |-> "table", matched |-> pm.matches,
                          found |-> found, connections |-> SortByStrength(found)]
                    ELSE [status |-> "empty", matched |-> pm.matches,
                          found |-> found, connections |-> found] :
                posts \in [1..Len(pm.matches) -> MatchingNames(nc, post)]} :
          pm \in MatchingNames(nc, pre)}

\* the characters of a raw pattern string
Alphabet == {"A", "B", "*", ",", " "}

\* the raw pattern strings of at most n characters
RawStrings(n) == SeqsUpTo(Alphabet, n)

\* a bug the handler could have: the first pair it looks up is stored in the
\* connectome, as a lookup through AddConnection with strength 0 would
searchHandlerStoring(preNames, postNames) ==
    /\ phase = "serving"
    /\ request = <<>>
    /\ request' = <<preNames, postNames>>
    /\ response' \in getSearchHTML(connectivity, preNames, postNames)
    /\ connectivity' = AddConnection(connectivity, Patterns(preNames)[1],
                                     Patterns(postNames)[1], 0)
    /\ UNCHANGED <<phase, names, bodyNum, items, col, hist, prior>>

\* searchHandler for a POST: the response of getSearchHTML is written; a panic is
\* recovered by the server and the process goes on serving
searchHandler(preNames, postNames) ==
    /\ phase = "serving"
    /\ request = <<>>
    /\ request' = <<preNames, postNames>>
    /\ response' \in getSearchHTML(connectivity, preNames, postNames)
    /\ UNCHANGED <<phase, names, connectivity, bodyNum, items, col, hist, prior>>

\* a POST to /search arrives, with any form values
Search ==
    /\ phase = "serving"
    /\ request = <<>>
    /\ \E preNames \in RawStrings(MaxRaw) :
          \E postNames \in RawStrings(MaxRaw - Len(preNames)) :
             searchHandler(preNames, postNames)

\* searchHandler returns: its locals are gone, the next request can come
searchDone ==
    /\ phase = "serving"
    /\ request # <<>>
    /\ request' = <<>>
    /\ response' = NoResponse
    /\ UNCHANGED <<phase, names, connectivity, bodyNum, items, col, hist, prior>>

Init ==
    /\ phase = "loading"
    /\ names \in NameTables
    /\ connectivity = EmptyMap
    /\ bodyNum = 0
    /\ items = <<>>
    /\ col = 0
    /\ hist = <<>>
    /\ request = <<>>
    /\ response = NoResponse
    /\ prior = NoPrior

Next ==
    \/ ReadEOF
    \/ ReadError
    \/ ReadBlank
    \/ ReadMismatch
    \/ ReadPastTable
    \/ ReadRow
    \/ ParseField

Spec == Init /\ [][Next]_vars

---------------------------------------------------------------------------
(* Claims about the load (Spec).                                           *)

\* the strength a connectome stores for a pair, 0 when it stores none
Stored(nc, pre, post) ==
    IF pre \in DOMAIN nc /\ post \in DOMAIN nc[pre] THEN nc[pre][post] ELSE 0

\* the pairs a connectome has an entry for
Pairs(nc) == {<<e[1], e[2]>> : e \in Entries(nc)}

\* nc2 is nc1 with strength added to the pair (pre, post) and nothing else changed
AddedTo(nc1, nc2, pre, post, strength) ==
    /\ Pairs(nc2) = Pairs(nc1) \cup {<<pre, post>>}
    /\ Stored(nc2, pre, post) = Wrap(Stored(nc1, pre, post) + strength)
    /\ \A pr \in Pairs(nc1) \ {<<pre, post>>} :
          Stored(nc2, pr[1], pr[2]) = Stored(nc1, pr[1], pr[2])

\* a row is being walked: its record is the last of hist
InRow == phase = "loading" /\ items # <<>>

\* the records before the current one that were read without error and have a
\* non-blank first field
RowsBefore ==
    Cardinality({i \in 1..(Len(hist) - 1) : ~hist[i].err /\ ~hist[i].blank})

\* the records before the current one that are not blank-first records: rows, and
\* records that errored on read
SlotsBefore == Cardinality({i \in 1..(Len(hist) - 1) : ~hist[i].blank})

\* the step of the field loop, for a field that parses: a positive value is added
\* to (names[k], names[col]) (0-based), any other value changes nothing
FieldGoesTo(k) ==
    LET parsed == Atoi(items[col + 1])
    IN  (InRow /\ parsed.ok) =>
           IF parsed.value > 0
           THEN /\ k < Len(names)
                /\ AddedTo(connectivity, connectivity', names[k + 1],
                           names[col + 1], parsed.value)
           ELSE connectivity' = connectivity

\* a blank-first record was just read
BlankStep == Len(hist') = Len(hist) + 1 /\ hist'[Len(hist')].blank

\* a record just errored on read
ErrorStep == Len(hist') = Len(hist) + 1 /\ hist'[Len(hist')].err

\* C3: every entry the connectome stores, in every state during and after the
\* load, has a strength strictly greater than 0.
C3_StoredStrengthsPositive == \A e \in Entries(connectivity) : e[3] > 0

\* C4 as claimed: once the server is serving, no record that was read had a field
\* count other than N or a field that is no integer, whatever its first field.
C4_AnyMalformedRecordAborts ==
    phase = "serving" => \A i \in 1..Len(hist) : ~hist[i].malformed

\* C4 as amended: a record read without error whose first field is not blank and
\* which has a field count other than N or a field that is no integer aborts the
\* load: the load never goes past it (it is the last record read, and its row is
\* still being walked or the process has stopped), and serving is never reached.
\* A record with a blank first field is passed over whatever its shape.
C4_MalformedNonBlankAborts ==
    \A i \in 1..Len(hist) :
       (hist[i].malformed /\ ~hist[i].blank) =>
          /\ phase # "serving"
          /\ i = Len(hist)
          /\ phase = "loading" => items # <<>>

\* C4 witness: after an earlier record, a malformed record with a non-blank first
\* field has stopped the process.
C4_Witness ==
    /\ Len(hist) >= 2
    /\ hist[Len(hist)].malformed
    /\ ~hist[Len(hist)].blank
    /\ phase = "fatal"
    /\ connectivity # EmptyMap

\* C5 as claimed: the k-th (0-based) record read without error and with a
\* non-blank first field has presynaptic name names[k] and its field c has
\* postsynaptic name names[c]; a blank-first record changes neither the counter
\* nor the connectome.
C5_RowIndexCountsRowsOnly ==
    [][FieldGoesTo(RowsBefore)
       /\ (BlankStep => bodyNum' = bodyNum /\ connectivity' = connectivity)]_vars

\* C5 as amended: the presynaptic name of a row is names[k], where k counts the
\* earlier records that did not have a blank first field, the records that
\* errored on read included; its field c has postsynaptic name names[c]; a
\* blank-first record changes neither the counter nor the connectome.
C5_RowIndexCountsSlots ==
    [][FieldGoesTo(SlotsBefore)
       /\ (BlankStep => bodyNum' = bodyNum /\ connectivity' = connectivity)]_vars

\* C5 witness: a row read after a blank-first record and after a record that
\* errored has stored a strength.
C5_Witness ==
    /\ InRow
    /\ col >= 1
    /\ \E i \in 1..(Len(hist) - 1) : hist[i].blank
    /\ \E i \in 1..(Len(hist) - 1) : hist[i].err
    /\ connectivity # EmptyMap

\* C10: a record that errors on read advances the row counter by one, adds no
\* entry and does not stop the load; the row read right after it, the counter
\* having been k at the error, is stored under names[k+1].
C10_ReadErrorConsumesSlot ==
    [][/\ ErrorStep =>
            /\ bodyNum' = bodyNum + 1
            /\ connectivity' = connectivity
            /\ phase' = "loading"
       /\ (InRow /\ Len(hist) >= 2 /\ hist[Len(hist) - 1].err) =>
            FieldGoesTo(hist[Len(hist) - 1].at + 1)]_vars

\* C10 witness: the row read right after a record that errored at counter 0 has
\* stored a strength, under the second name of the table.
C10_Witness ==
    /\ InRow
    /\ col >= 1
    /\ Len(hist) = 2
    /\ hist[1].err
    /\ names[1] # names[2]
    /\ DOMAIN connectivity = {names[2]}

\* the strengths of the connectomes the server starts with
LoadedStrengths == {1, MaxInt}

\* the inner maps a loaded connectome holds for one presynaptic name
RowMaps ==
    UNION {[posts -> LoadedStrengths] : posts \in (SUBSET CellNames) \ {{}}}

\* connectomes the load leaves behind: the result of loading the matrix that holds
\* the same strengths, under a table of the names
LoadedConnectomes ==
    UNION {[pres -> RowMaps] : pres \in SUBSET CellNames}

\* the server once main has reached ListenAndServe
InitServe ==
    /\ phase = "serving"
    /\ names = <<<<"A">>, <<"A", "B">>>>
    /\ connectivity \in LoadedConnectomes
    /\ bodyNum = 0
    /\ items = <<>>
    /\ col = 0
    /\ hist = <<>>
    /\ request = <<>>
    /\ response = NoResponse
    /\ prior = NoPrior

NextServe ==
    \/ Search
    \/ searchDone

SpecServe == InitServe /\ [][NextServe]_vars

---------------------------------------------------------------------------
(* Claims about the query (SpecServe).                                     *)

\* a name satisfies a pattern: equality, or prefix when the pattern ends in '*'
Satisfies(name, pattern) ==
    /\ pattern # <<>>
    /\ IF pattern[Len(pattern)] = "*"
       THEN HasPrefix(name, SubSeq(pattern, 1, Len(pattern) - 1))
       ELSE name = pattern

\* how many times x occurs in a list
Count(list, x) == Cardinality({i \in 1..Len(list) : list[i] = x})

\* a request has been handled and its response stands
Handled == phase = "serving" /\ request # <<>>

\* the pattern lists of the request
PrePatterns == Patterns(request[1])
PostPatterns == Patterns(request[2])

\* C1: the query never fails: whatever the two raw pattern strings, it completes
\* and gives a connection list or the no-results state.
C1_QueryNeverFails == Handled => response.status \in {"table", "empty"}

\* C2: the result of a query that completed holds every stored connection
\* (pre, post, s) whose pre satisfies some source pattern and whose post satisfies
\* some target pattern.
C2_AllMatchingConnectionsReturned ==
    (Handled /\ response.status # "panic") =>
       \A e \in Entries(connectivity) :
          (/\ \E i \in 1..Len(PrePatterns) : Satisfies(e[1], PrePatterns[i])
           /\ \E j \in 1..Len(PostPatterns) : Satisfies(e[2], PostPatterns[j]))
          => \E k \in 1..Len(response.connections) :
                response.connections[k] = [pre |-> e[1], post |-> e[2], strength |-> e[3]]

\* C7: for a list of non-empty patterns, MatchingNames returns each presynaptic
\* key once per pattern it satisfies, and nothing else.
C7_MatchingNamesMultiset ==
    (Handled /\ \A i \in 1..Len(PrePatterns) : PrePatterns[i] # <<>>) =>
       \A name \in DOMAIN connectivity \cup Range(response.matched) \cup Range(PrePatterns) :
          Count(response.matched, name) =
             Cardinality({i \in 1..Len(PrePatterns) :
                             name \in DOMAIN connectivity /\ Satisfies(name, PrePatterns[i])})

\* C7 witness: a prefix pattern that matches two keys, together with a pattern
\* that matches one of them again.
C7_Witness ==
    /\ Handled
    /\ Len(PrePatterns) = 2
    /\ \E i \in 1..2 : PrePatterns[i] = <<"A", "*">>
    /\ Len(response.matched) = 3
    /\ Count(response.matched, <<"A", "B">>) = 1

\* C8: the connection list of a query that completed is in descending order of
\* strength and holds each found connection as many times as it was found.
C8_SortedPermutation ==
    (Handled /\ response.status # "panic") =>
       /\ \A i \in 1..Len(response.connections) : \A j \in i..Len(response.connections) :
             response.connections[i].strength >= response.connections[j].strength
       /\ \A c \in Range(response.found) \cup Range(response.connections) :
             Count(response.connections, c) = Count(response.found, c)

\* C8 witness: a list with a connection found twice and two different strengths,
\* which the sort had to reorder.
C8_Witness ==
    /\ Handled
    /\ response.status = "table"
    /\ response.connections # response.found
    /\ \E c \in Range(response.found) : Count(response.connections, c) = 2
    /\ \E i, j \in 1..Len(response.connections) :
          response.connections[i].strength # response.connections[j].strength

---------------------------------------------------------------------------
(* AddConnection on its own: two calls for the same pair, from any          *)
(* connectome.                                                              *)

\* the strengths AddConnection is called with, and finds stored
AddValues == {MinInt, 0 - 1, 0, 1, MaxInt}

StoredRowMaps ==
    UNION {[posts -> AddValues \ {MinInt}] : posts \in (SUBSET CellNames) \ {{}}}

\* any connectome: none, empty, or with entries of any sign
AnyConnectomes ==
    UNION {[pres -> StoredRowMaps] : pres \in SUBSET CellNames}

\* the first call, AddConnection(pre, post, a)
AddFirst ==
    /\ phase = "unit"
    /\ prior.calls = 0
    /\ \E pre \in CellNames, post \in CellNames, a \in AddValues :
          /\ connectivity' = AddConnection(connectivity, pre, post, a)
          /\ prior' = [calls |-> 1, nc |-> connectivity, pre |-> pre, post |-> post,
                       a |-> a, b |-> 0]
    /\ UNCHANGED <<phase, names, bodyNum, items, col, hist, request, response>>

\* the second call, AddConnection(pre, post, b), for the pair of the first
AddSecond ==
    /\ phase = "unit"
    /\ prior.calls = 1
    /\ \E b \in AddValues :
          /\ connectivity' = AddConnection(connectivity, prior.pre, prior.post, b)
          /\ prior' = [prior EXCEPT !.calls = 2, !.b = b]
    /\ UNCHANGED <<phase, names, bodyNum, items, col, hist, request, response>>

InitAdd ==
    /\ phase = "unit"
    /\ names = <<>>
    /\ connectivity \in AnyConnectomes
    /\ bodyNum = 0
    /\ items = <<>>
    /\ col = 0
    /\ hist = <<>>
    /\ request = <<>>
    /\ response = NoResponse
    /\ prior = NoPrior

NextAdd == AddFirst \/ AddSecond

SpecAdd == InitAdd /\ [][NextAdd]_vars

\* C6: AddConnection(pre, post, a) then AddConnection(pre, post, b) leaves the
\* strength of (pre, post) at its previous value (0 if absent) plus a+b, in int
\* arithmetic, every other pair as it was, and the connectome in the state one
\* AddConnection(pre, post, a+b) leaves it in.
C6_AddConnectionAdditive ==
    prior.calls = 2 =>
       /\ AddedTo(prior.nc, connectivity, prior.pre, prior.post, Wrap(prior.a + prior.b))
       /\ connectivity = AddConnection(prior.nc, prior.pre, prior.post,
                                       Wrap(prior.a + prior.b))

\* C6 witness: two calls with non-zero strengths for a pair the connectome already
\* held, beside another pair.
C6_Witness ==
    /\ prior.calls = 2
    /\ Stored(prior.nc, prior.pre, prior.post) # 0
    /\ prior.a # 0
    /\ prior.b # 0
    /\ Cardinality(Pairs(prior.nc)) >= 2

====
